---- MODULE Spec2Model ----
(***************************************************************************)
(* Image to WebP converter: the batch conversion of the desktop GUI        *)
(* (gui.py, WebPConverterGUI) and of the command line tool                 *)
(* (image_to_webp.py, main / process_directory), over one shared disk.     *)
(***************************************************************************)
EXTENDS Integers, Sequences, FiniteSets, TLC

(***************************************************************************)
(* Bounds of the model                                                     *)
(***************************************************************************)
\* user actions of one session: the calls of process_files (a selection or a
\* drop of files) plus the presses of Start Conversion that pass its guard
MaxPresses == 3
\* calls of convert_files_thread that the thread pool holds at one time
MaxBacklog == 2

(***************************************************************************)
(* Paths.  A path is a record [dir, name, ctr, ext]: dir is the sequence of *)
(* directory names, name the base name as a sequence of pieces (prefix     *)
(* pieces, stem, suffix pieces), ctr the collision counter "(k)" before    *)
(* the extension (0: none).                                                *)
(***************************************************************************)
Path(d, n, e) == [dir |-> d, name |-> n, ctr |-> 0, ext |-> e]

a_png == Path(<<"in">>, <<"a">>, ".png")
b_jpg == Path(<<"in", "sub">>, <<"b">>, ".jpg")
c_png == Path(<<"in">>, <<"c">>, ".png")
a_jpg == Path(<<"in">>, <<"a">>, ".jpg")
n_txt == Path(<<"in">>, <<"n">>, ".txt")

\* the files on disk when the program starts; a_jpg is on disk only in the
\* specification that says so
Files == {a_png, b_jpg, c_png, n_txt}

\* the directories on disk, and a path that does not exist
in_dir == Path(<<"in">>, <<>>, "")
sub_dir == Path(<<"in", "sub">>, <<>>, "")
Dirs == {in_dir, sub_dir}
missing_png == Path(<<"in">>, <<"missing">>, ".png")

\* files whose bytes do not decode as an image (Image.open or verify raises)
Corrupt == {c_png, n_txt}

NoPath == [dir |-> <<>>, name |-> <<>>, ctr |-> 0, ext |-> ""]

SUPPORTED_FORMATS == {".png", ".jpg", ".jpeg", ".gif", ".bmp", ".tiff"}

max_workers == 4

dirname(p) == p.dir

\* os.path.splitext of a base name: the part before the extension
splitext(p) == <<[p EXCEPT !.ext = ""], p.ext>>

\* Path(p).with_suffix('.webp')
with_suffix_webp(p) == [p EXCEPT !.ext = ".webp"]

\* f"{prefix}{name}{suffix}.webp" placed in directory d
get_output_filename(input, prefix, suffix) ==
    [dir |-> <<>>, name |-> prefix \o splitext(input)[1].name \o suffix,
     ctr |-> splitext(input)[1].ctr, ext |-> ".webp"]

join(d, p) == [p EXCEPT !.dir = d \o p.dir]

\* os.path.relpath(p, root) for a path p below the directory root
relpath(p, root) == [p EXCEPT !.dir = SubSeq(p.dir, Len(root.dir) + 1, Len(p.dir))]

\* the value None of an option that takes a string; the text that an f-string
\* makes of an option value; the truth value of an option value
None == <<"<None>">>

format(value) == IF value = None THEN <<"None">> ELSE value

truthy(value) == value # None /\ value # <<>>

(***************************************************************************)
(* generate_unique_filename: prefix and suffix around the base name, then  *)
(* the first free name among base, base(1), base(2), ...                   *)
(***************************************************************************)
RECURSIVE FirstFree(_, _, _)
FirstFree(p, counter, disk) ==
    IF [p EXCEPT !.ctr = counter] \in disk
    THEN FirstFree(p, counter + 1, disk)
    ELSE [p EXCEPT !.ctr = counter]

\* fault: the name is built and returned without looking at the disk
generate_filename_unchecked(output_path, prefix, suffix, disk) ==
    IF truthy(prefix) \/ truthy(suffix)
    THEN [output_path EXCEPT !.name = format(prefix) \o output_path.name \o format(suffix)]
    ELSE output_path

generate_unique_filename(output_path, prefix, suffix, disk) ==
    LET base == IF truthy(prefix) \/ truthy(suffix)
                THEN [output_path EXCEPT !.name =
                         format(prefix) \o output_path.name \o format(suffix)]
                ELSE output_path
    IN  IF base \notin disk THEN base ELSE FirstFree(base, 1, disk)

(***************************************************************************)
(* State                                                                   *)
(***************************************************************************)
VARIABLES
    program,             \* which executable runs: "gui" or "cli"
    inputs,              \* input files that exist on disk
    outputs,             \* output files that exist on disk
    \* ---- WebPConverterGUI ----
    total_files,
    processed_files,
    active_conversions,
    pending_files,       \* sequence of <<file_path, output_path>>
    is_converting,
    stop_requested,
    start_button,        \* "normal" or "disabled"
    stop_button,
    ui,                  \* the UI thread: idle, or inside the loop of start_conversion
    thread_pool,         \* the unfinished calls of convert_files_thread, oldest first
    total_converted,     \* one {'success', 'error'} dict per start_conversion
    batch_log,           \* per start_conversion, its "Skipping ..." and "Stopping ..." logs
    selections,          \* number of process_files calls so far
    calls,               \* per file, the convert_to_webp calls since it was selected
    progress,            \* last ('progress', v) put on the queue, v = <<num, den>>
    summary,             \* last show_info / show_warning put on the queue
    scan_log,            \* the "Scanning directory" and "Skipping <path>" logs of
                         \* process_files since "Processing new files..."
    \* ---- image_to_webp.main and process_directory ----
    main_pc,             \* position of the main thread
    args,                \* the parsed command line
    settings,            \* the settings resolved by main
    presets,             \* config.PRESET_PROFILES, the module-level dict
    config,              \* Config.config, the dict in memory
    config_file,         \* the configuration file on disk
    futures,             \* (input_path, future) pairs of process_directory
    successful,
    failed,
    pbar,                \* the count of the tqdm progress bar
    result_idx,          \* position of the result loop in futures
    exit_code,
    \* ---- one call of image_to_webp.convert_to_webp, step by step ----
    call,                \* its arguments, its position and what it returned
    \* ---- the profile controls of WebPConverterGUI across restarts ----
    window               \* whether the window is up, profile_var and the controls

guiVars == <<total_files, processed_files, active_conversions, pending_files,
             is_converting, stop_requested,
             start_button, stop_button, ui, thread_pool, total_converted,
             batch_log, selections, calls, progress, summary, scan_log>>

configVars == <<presets, config, config_file>>

cliVars == <<main_pc, args, settings, configVars, futures, successful, failed, pbar,
             result_idx, exit_code>>

diskVars == <<inputs, outputs>>

vars == <<program, inputs, outputs, guiVars, cliVars, call, window>>

Idle == [pc |-> "idle", list |-> <<>>, idx |-> 0,
         settings |-> [preserve_originals |-> TRUE, recursive |-> FALSE,
                       output_dir |-> NoPath, prefix |-> <<>>, suffix |-> <<>>],
         batch |-> 0]

NoSummary == [word |-> "", kind |-> ""]

InitGUI ==
    /\ total_files = 0
    /\ processed_files = 0
    /\ active_conversions = 0
    /\ pending_files = <<>>
    /\ is_converting = FALSE
    /\ stop_requested = FALSE
    /\ start_button = "disabled"
    /\ stop_button = "disabled"
    /\ ui = Idle
    /\ thread_pool = <<>>
    /\ total_converted = <<>>
    /\ batch_log = <<>>
    /\ selections = 0
    /\ calls = [f \in Files |-> 0]
    /\ progress = <<0, 1>>
    /\ summary = NoSummary
    /\ scan_log = <<>>

(***************************************************************************)
(* config.py: the preset profiles and a fresh configuration                *)
(***************************************************************************)
PRESET_PROFILES ==
    [high_quality |-> [quality |-> 95, lossless |-> TRUE,
                       preserve_timestamps |-> TRUE, preserve_originals |-> TRUE],
     balanced |-> [quality |-> 80, lossless |-> FALSE,
                   preserve_timestamps |-> TRUE, preserve_originals |-> TRUE],
     web_optimized |-> [quality |-> 75, lossless |-> FALSE,
                        preserve_timestamps |-> FALSE, preserve_originals |-> TRUE],
     space_saver |-> [quality |-> 60, lossless |-> FALSE,
                      preserve_timestamps |-> FALSE, preserve_originals |-> FALSE]]

\* an optional value is the empty set (None) or the set of its one value
DEFAULT_CONFIG ==
    [default_profile |-> "balanced", last_used_settings |-> {},
     custom_profiles |-> <<>>]

\* a configuration file left by an earlier run with --save-profile mine
StoredConfig ==
    [DEFAULT_CONFIG EXCEPT !.custom_profiles =
        [n \in {"mine"} |-> [quality |-> 70, lossless |-> TRUE,
                             preserve_timestamps |-> TRUE,
                             preserve_originals |-> TRUE]]]

\* the dict object that Config.get_profile returns: <<"custom", name>> is
\* config['custom_profiles'][name], <<"preset", name>> is PRESET_PROFILES[name];
\* "" stands for no profile name
profile_object(profile_name) ==
    LET name == IF profile_name = "" THEN config.default_profile ELSE profile_name
    IN  IF name \in DOMAIN config.custom_profiles THEN <<"custom", name>>
        ELSE IF name \in DOMAIN presets THEN <<"preset", name>>
        ELSE <<"preset", "balanced">>

\* Config.get_profile: the settings held by that object
get_profile(profile_name) ==
    LET object == profile_object(profile_name)
    IN  IF object[1] = "custom" THEN config.custom_profiles[object[2]]
        ELSE presets[object[2]]

\* the command lines of the model
Args ==
    [input : {a_png, c_png, n_txt, in_dir, missing_png},
     recursive : BOOLEAN,
     keep_originals : BOOLEAN,
     delete_originals : BOOLEAN,
     profile : {"", "space_saver"},
     output : {NoPath}, quality : {{}}, lossless : {FALSE},
     no_preserve_timestamps : {FALSE}, use_last : {FALSE}, save_profile : {""},
     prefix : {None}, suffix : {None}]

NoArgs == [input |-> NoPath, recursive |-> FALSE, keep_originals |-> FALSE,
           delete_originals |-> FALSE, profile |-> "",
           output |-> NoPath, quality |-> {}, lossless |-> FALSE,
           no_preserve_timestamps |-> FALSE, use_last |-> FALSE,
           save_profile |-> "", prefix |-> None, suffix |-> None]

InitCLI ==
    /\ main_pc = "main"
    /\ settings = PRESET_PROFILES["balanced"]
    /\ presets = PRESET_PROFILES
    /\ config = StoredConfig
    /\ config_file = StoredConfig
    /\ futures = <<>>
    /\ successful = 0
    /\ failed = 0
    /\ pbar = 0
    /\ result_idx = 0
    /\ exit_code = -1

\* the third item that a call returns on failure: the exception object, given
\* by its class and by the fixed part of its message
Raised(class, message) == [class |-> class, message |-> message]

NoError == Raised("", "")

NoCall == [pc |-> "none", input_path |-> NoPath, output_path |-> NoPath,
           prefix |-> <<>>, suffix |-> <<>>, preserve_timestamps |-> FALSE,
           failed_at |-> "", warned |-> FALSE,
           success |-> FALSE, result |-> NoPath, error |-> NoError]

\* the calls of the model: convert_to_webp(input_path, output_path, quality,
\* preserve_timestamps, lossless, prefix, suffix) about to run
Calls ==
    {[NoCall EXCEPT !.pc = "open", !.input_path = i, !.output_path = o,
                    !.prefix = x, !.suffix = y, !.preserve_timestamps = t] :
        i \in {a_png, b_jpg, c_png, missing_png},
        o \in {NoPath, Path(<<"out">>, <<"x">>, ".webp")},
        x \in {<<>>, <<"p">>}, y \in {<<>>, <<"s">>}, t \in BOOLEAN}

\* no window: the application is not running
NoWindow == [state |-> "none", profile_var |-> "",
             controls |-> [quality |-> 0, lossless |-> FALSE,
                           preserve_timestamps |-> FALSE, preserve_originals |-> FALSE]]

Init ==
    /\ inputs = Files
    /\ InitGUI
    /\ InitCLI
    /\ \/ program = "gui" /\ args = NoArgs /\ call = NoCall /\ window = NoWindow /\ outputs = {}
       \/ program = "cli" /\ args \in Args /\ call = NoCall /\ window = NoWindow /\ outputs = {}
       \/ program = "convert" /\ args = NoArgs /\ call \in Calls /\ window = NoWindow
             /\ outputs \in {{}, {with_suffix_webp(a_png)}}

(***************************************************************************)
(* The settings dict built by process_files and by start_conversion        *)
(***************************************************************************)
\* keep_original, recursive and output_dir are the values of the Keep Originals
\* and Process Subdirectories checkbuttons and of the Output Directory entry when
\* the handler reads them
CurrentSettings(keep_original, recursive, output_dir) ==
    [preserve_originals |-> keep_original, recursive |-> recursive,
     output_dir |-> output_dir, prefix |-> <<>>, suffix |-> <<>>]

\* the value placed on the queue by (processed_files / total_files) * 100
Percent(processed, total) == <<processed, total>>

\* v >= w for two progress values
ProgressGeq(v, w) == v[1] * w[2] >= w[1] * v[2]

(***************************************************************************)
(* process_files(files): reset the tracking, then collect the supported    *)
(* files of the selection with their output paths.                         *)
(***************************************************************************)
\* the order in which a directory lists its files
Listing == <<a_png, a_jpg, c_png, n_txt, b_jpg>>

\* the directories below a directory, itself included
Tree(d) ==
    {e.dir : e \in {x \in Dirs : /\ Len(x.dir) >= Len(d.dir)
                                 /\ SubSeq(x.dir, 1, Len(d.dir)) = d.dir}}

\* the values of the Process Subdirectories checkbutton and of the Output
\* Directory entry that process_files reads; prefix and suffix entries are empty
EntrySettings(recursive, output_dir) ==
    [recursive |-> recursive, output_dir |-> output_dir,
     prefix |-> <<>>, suffix |-> <<>>]

\* the (file_path, output_path) pairs appended for one directory of the selection:
\* os.walk, with "rel_path = os.path.relpath(file_path, os.path.dirname(file_path))"
WalkPending(directory, st) ==
    LET found == SelectSeq(Listing,
                           LAMBDA f : /\ f \in inputs
                                      /\ splitext(f)[2] \in SUPPORTED_FORMATS
                                      /\ f.dir \in Tree(directory))
        Entry(file_path) ==
            IF st.output_dir # NoPath
            THEN <<file_path,
                   with_suffix_webp(join(st.output_dir.dir,
                       relpath(file_path, [file_path EXCEPT !.name = <<>>, !.ext = ""])))>>
            ELSE <<file_path, NoPath>>
    IN  [i \in DOMAIN found |-> Entry(found[i])]

RECURSIVE CollectPending(_, _)
CollectPending(files, st) ==
    IF files = <<>> THEN <<>>
    ELSE LET file_path == Head(files)
             output_filename == get_output_filename(file_path, st.prefix, st.suffix)
             output_path == IF st.output_dir # NoPath
                            THEN join(st.output_dir.dir, output_filename)
                            ELSE join(dirname(file_path), output_filename)
             rest == CollectPending(Tail(files), st)
         IN  IF file_path \in inputs
             THEN IF splitext(file_path)[2] \in SUPPORTED_FORMATS
                  THEN <<(<<file_path, output_path>>)>> \o rest
                  ELSE rest
             ELSE IF file_path \in Dirs /\ st.recursive
             THEN WalkPending(file_path, st) \o rest
             ELSE rest

\* the logs of process_files about the paths that are not files
RECURSIVE CollectLog(_, _)
CollectLog(files, st) ==
    IF files = <<>> THEN <<>>
    ELSE LET file_path == Head(files)
             rest == CollectLog(Tail(files), st)
         IN  IF file_path \in inputs THEN rest
             ELSE IF file_path \in Dirs /\ st.recursive
             THEN <<(<<"Scanning directory", file_path>>)>> \o rest
             ELSE IF file_path \in Dirs
             THEN <<(<<"Skipping, recursive processing disabled", file_path>>)>> \o rest
             ELSE <<(<<"Skipping, not a supported file or directory", file_path>>)>>
                     \o rest

\* the selections of the model: one file, two files of different directories in
\* both orders, and a file that is not supported
Selections == {<<a_png>>, <<a_png, b_jpg>>, <<b_jpg, a_png>>, <<n_txt>>}

process_files(files, recursive, output_dir) ==
    /\ program = "gui"
    /\ ui.pc = "idle"
    /\ selections + Len(total_converted) < MaxPresses
    /\ selections' = selections + 1
    /\ LET found == CollectPending(files, EntrySettings(recursive, output_dir))
       IN  /\ total_files' = Len(found)
           /\ pending_files' = found
           /\ start_button' = IF Len(found) > 0 THEN "normal" ELSE start_button
    /\ processed_files' = 0
    /\ active_conversions' = 0
    /\ is_converting' = FALSE
    /\ stop_requested' = FALSE
    /\ calls' = [f \in Files |-> 0]
    /\ thread_pool' = [t \in DOMAIN thread_pool |-> [thread_pool[t] EXCEPT !.stale = TRUE]]
    /\ scan_log' = CollectLog(files, EntrySettings(recursive, output_dir))
    /\ UNCHANGED <<program, call, window, cliVars, diskVars, stop_button, ui, total_converted, batch_log,
                   progress, summary>>

(***************************************************************************)
(* start_conversion: the guard and the set-up before the dispatch loop     *)
(***************************************************************************)
start_conversion(keep_original, recursive, output_dir) ==
    /\ program = "gui"
    /\ ui.pc = "idle"
    /\ start_button = "normal"
    /\ ~(pending_files = <<>> \/ is_converting)
    /\ selections + Len(total_converted) < MaxPresses
    /\ Len(thread_pool) + Len(pending_files) <= MaxBacklog
    /\ is_converting' = TRUE
    /\ stop_requested' = FALSE
    /\ start_button' = "disabled"
    /\ stop_button' = "normal"
    /\ total_converted' = Append(total_converted, [success |-> 0, error |-> 0])
    /\ batch_log' = Append(batch_log, [skipped |-> 0, stopped |-> FALSE])
    /\ ui' = [pc |-> "dispatch", list |-> pending_files, idx |-> 1,
              settings |-> CurrentSettings(keep_original, recursive, output_dir),
              batch |-> Len(total_converted) + 1]
    /\ UNCHANGED <<scan_log, program, call, window, cliVars, diskVars, total_files, processed_files, active_conversions,
                   pending_files, thread_pool, selections, calls, progress, summary>>

\* the UI thread after the iteration over ui.list[ui.idx]
NextIteration ==
    IF ui.idx = Len(ui.list) THEN Idle ELSE [ui EXCEPT !.idx = ui.idx + 1]

\* the arguments of one submitted call: the settings dict of start_conversion,
\* of which convert_files_thread reads preserve_originals, prefix and suffix
TaskSettings(st) ==
    [preserve_originals |-> st.preserve_originals, output_dir |-> st.output_dir,
     prefix |-> st.prefix, suffix |-> st.suffix]

NewTask(file_path, output_path) ==
    [file |-> file_path, output_path |-> output_path,
     settings |-> TaskSettings(ui.settings), batch |-> ui.batch, stale |-> FALSE,
     pc |-> "queued", success |-> FALSE, result |-> NoPath, raised |-> ""]

(***************************************************************************)
(* one iteration of "for file_path, output_path in self.pending_files"     *)
(***************************************************************************)
dispatch ==
    /\ program = "gui"
    /\ ui.pc = "dispatch"
    /\ LET file_path == ui.list[ui.idx][1]
           output_path == ui.list[ui.idx][2]
       IN  IF stop_requested
           THEN \* break
                /\ ui' = Idle
                /\ UNCHANGED <<processed_files, progress, active_conversions,
                               thread_pool, batch_log>>
           ELSE IF ~ui.settings.recursive /\ pending_files = <<>>
           THEN \* self.pending_files[0] raises IndexError out of the handler
                /\ ui' = Idle
                /\ UNCHANGED <<processed_files, progress, active_conversions,
                               thread_pool, batch_log>>
           ELSE IF ~ui.settings.recursive
                   /\ dirname(file_path) # dirname(pending_files[1][1])
           THEN \* skip a file of a subdirectory
                /\ processed_files' = processed_files + 1
                /\ batch_log' = [batch_log EXCEPT ![ui.batch].skipped = @ + 1]
                /\ IF total_files = 0
                   THEN /\ ui' = Idle
                        /\ UNCHANGED progress
                   ELSE /\ progress' = Percent(processed_files + 1, total_files)
                        /\ ui' = NextIteration
                /\ UNCHANGED <<active_conversions, thread_pool>>
           ELSE \* submit to the thread pool
                /\ active_conversions' = active_conversions + 1
                /\ thread_pool' = Append(thread_pool, NewTask(file_path, output_path))
                /\ ui' = NextIteration
                /\ UNCHANGED <<processed_files, progress, batch_log>>
    /\ UNCHANGED <<scan_log, program, call, window, cliVars, diskVars, total_files, pending_files, is_converting,
                   stop_requested, start_button, stop_button, total_converted,
                   selections, calls, summary>>

(***************************************************************************)
(* stop_conversion                                                         *)
(***************************************************************************)
stop_conversion ==
    /\ program = "gui"
    /\ ui.pc = "idle"
    /\ stop_button = "normal"
    /\ is_converting
    /\ stop_requested' = TRUE
    /\ stop_button' = "disabled"
    /\ batch_log' = [batch_log EXCEPT ![Len(batch_log)].stopped = TRUE]
    /\ UNCHANGED <<scan_log, program, call, window, cliVars, diskVars, total_files, processed_files, active_conversions,
                   pending_files, is_converting, start_button, ui, thread_pool,
                   total_converted, selections, calls, progress, summary>>

(***************************************************************************)
(* The except clauses of convert_to_webp.  An exception is named by its    *)
(* class; "Exception" stands for every class other than the three named.   *)
(***************************************************************************)
Exceptions == {"ConversionError", "IOError", "SyntaxError", "Exception"}

\* "except (IOError, SyntaxError) as e: raise ConversionError(...)"
inner_except(e) == IF e \in {"IOError", "SyntaxError"} THEN "ConversionError" ELSE e

\* fault: the function catches its own ConversionError and nothing else
outer_except_conversion_only(e) == IF e = "ConversionError" THEN "" ELSE e

\* "except ConversionError" and "except Exception": both return (False, input_path, e);
\* the value is the exception that propagates to the caller, "" for none
outer_except(e) ==
    IF e = "ConversionError" THEN ""
    ELSE IF e \in Exceptions THEN ""
    ELSE e

\* the exception raised before the output name is chosen, "" for none
early_error(input_path, disk_ok) ==
    IF input_path \notin inputs THEN "ConversionError"
    ELSE IF ~disk_ok THEN "ConversionError"
    ELSE IF input_path \in Corrupt THEN inner_except("IOError")
    ELSE ""

\* the outcomes of img.save: it returns (""), or raises an I/O error or another error
SaveOutcomes == {"", "IOError", "Exception"}

(***************************************************************************)
(* convert_to_webp fails before it chooses the output name when the input  *)
(* is missing, the disk is short of space or the image does not verify.    *)
(* disk_ok is the answer of check_disk_space.                              *)
(***************************************************************************)
convert_fails_early(input_path, disk_ok) ==
    \/ input_path \notin inputs
    \/ ~disk_ok
    \/ input_path \in Corrupt

convert_output_path(input_path, output_path, prefix, suffix) ==
    generate_unique_filename(
        IF output_path = NoPath THEN with_suffix_webp(input_path) ELSE output_path,
        prefix, suffix, inputs \cup outputs)

(***************************************************************************)
(* One call of convert_to_webp, statement by statement.  The error that a  *)
(* failed call returns is the exception object caught by its outer except  *)
(* clauses.                                                                *)
(***************************************************************************)
\* "except (IOError, SyntaxError) as e: raise ConversionError(f"Corrupted or
\* invalid image file: {e}")" around everything from Image.open to the return
inner_error(e) ==
    IF e.class \in {"IOError", "SyntaxError"}
    THEN Raised("ConversionError", "Corrupted or invalid image file")
    ELSE e

\* "except ConversionError as e: return False, input_path, e" and "except
\* Exception as e: return False, input_path, Exception(f"Unexpected error: {e}")"
returned_error(e) ==
    IF e.class = "ConversionError" THEN e
    ELSE Raised("Exception", "Unexpected error")

\* the return of (False, input_path, error) after the failure of statement "at"
Fail(at, e) ==
    [call EXCEPT !.pc = "returned", !.failed_at = at, !.success = FALSE,
                 !.result = NoPath, !.error = returned_error(e)]

\* the existence test, the disk space test, Image.open and img.verify, then
\* "output_path = str(Path(input_path).with_suffix('.webp'))" if None was passed
convert_to_webp_open ==
    /\ program = "convert"
    /\ call.pc = "open"
    /\ \E disk_ok \in BOOLEAN :
          call' =
             IF call.input_path \notin inputs
             THEN Fail("exists",
                       Raised("ConversionError", "Input file does not exist"))
             ELSE IF ~disk_ok
             THEN Fail("check_disk_space",
                       Raised("ConversionError", "Insufficient disk space"))
             ELSE IF call.input_path \in Corrupt
             THEN Fail("verify", inner_error(Raised("SyntaxError", "verify")))
             ELSE [call EXCEPT !.pc = "makedirs",
                     !.output_path = IF @ = NoPath
                                     THEN with_suffix_webp(call.input_path) ELSE @]
    /\ UNCHANGED <<program, window, guiVars, cliVars, diskVars>>

\* os.makedirs(os.path.dirname(output_path), exist_ok=True), which raises an
\* OSError (IOError is the same class) when it fails, then generate_unique_filename
convert_to_webp_makedirs ==
    /\ program = "convert"
    /\ call.pc = "makedirs"
    /\ \E makedirs_ok \in BOOLEAN :
          call' =
             IF ~makedirs_ok
             THEN Fail("makedirs", inner_error(Raised("IOError", "makedirs")))
             ELSE [call EXCEPT !.pc = "save",
                     !.output_path = generate_unique_filename(
                                         @, call.prefix, call.suffix,
                                         inputs \cup outputs)]
    /\ UNCHANGED <<program, window, guiVars, cliVars, diskVars>>

\* img.save(output_path, 'WEBP', ...) writes straight to output_path: it
\* returns, or it raises an I/O error or another error; when it raises, the
\* file it had opened for writing is still there (left) or is not
convert_to_webp_save ==
    /\ program = "convert"
    /\ call.pc = "save"
    /\ \E save \in SaveOutcomes, left \in BOOLEAN :
          IF save = ""
          THEN /\ outputs' = outputs \cup {call.output_path}
               /\ call' = IF call.preserve_timestamps
                          THEN [call EXCEPT !.pc = "copy_timestamps"]
                          ELSE [call EXCEPT !.pc = "returned", !.success = TRUE,
                                            !.result = call.output_path]
          ELSE /\ outputs' = IF left THEN outputs \cup {call.output_path} ELSE outputs
               /\ call' = Fail("save", inner_error(Raised(save, "save")))
    /\ UNCHANGED <<program, window, guiVars, cliVars, inputs>>

\* fault: copy_timestamps without its try/except lets the error of os.utime out
copy_timestamps_unguarded(utime) == utime

\* copy_timestamps: "except Exception as e: logger.warning(...)"; the value is
\* the exception that leaves the function, "" for none
copy_timestamps(utime) == ""

\* "if preserve_timestamps: copy_timestamps(...)" and "return True, input_path,
\* output_path"; utime is the outcome of os.stat and os.utime
convert_to_webp_timestamps ==
    /\ program = "convert"
    /\ call.pc = "copy_timestamps"
    /\ \E utime \in {"", "IOError"} :
          call' =
             IF copy_timestamps(utime) # ""
             THEN Fail("copy_timestamps",
                       inner_error(Raised(copy_timestamps(utime), "utime")))
             ELSE [call EXCEPT !.pc = "returned", !.success = TRUE,
                               !.result = call.output_path,
                               !.warned = (utime # "")]
    /\ UNCHANGED <<program, window, guiVars, cliVars, diskVars>>

(***************************************************************************)
(* The pool workers: each submitted call of convert_files_thread           *)
(***************************************************************************)
Tasks == DOMAIN thread_pool

Executing(t) == thread_pool[t].pc # "queued"

\* a worker takes the oldest queued call and tests stop_requested
task_start(t) ==
    /\ program = "gui"
    /\ thread_pool[t].pc = "queued"
    /\ \A u \in Tasks : u < t => thread_pool[u].pc # "queued"
    /\ Cardinality({u \in Tasks : Executing(u)}) < max_workers
    /\ thread_pool' = [thread_pool EXCEPT ![t].pc =
                          IF stop_requested THEN "finally" ELSE "convert"]
    /\ UNCHANGED <<scan_log, program, call, window, cliVars, diskVars, total_files, processed_files, active_conversions,
                   pending_files, is_converting, stop_requested, start_button,
                   stop_button, ui, total_converted, batch_log, selections, calls, progress,
                   summary>>

\* the call of image_to_webp.convert_to_webp: save is the outcome of img.save
task_convert(t) ==
    /\ program = "gui"
    /\ thread_pool[t].pc = "convert"
    /\ \E disk_ok \in BOOLEAN, save \in SaveOutcomes :
          LET task == thread_pool[t]
              out == convert_output_path(task.file, task.output_path,
                                         task.settings.prefix, task.settings.suffix)
              error == IF convert_fails_early(task.file, disk_ok)
                       THEN early_error(task.file, disk_ok)
                       ELSE inner_except(save)
          IN  IF error # ""
              THEN /\ thread_pool' = [thread_pool EXCEPT ![t].pc = "record",
                                                         ![t].success = FALSE,
                                                         ![t].raised = outer_except(error)]
                   /\ UNCHANGED outputs
              ELSE /\ thread_pool' = [thread_pool EXCEPT ![t].pc = "record",
                                         ![t].success = TRUE, ![t].result = out]
                   /\ outputs' = outputs \cup {out}
    /\ calls' = IF thread_pool[t].stale THEN calls
                ELSE [calls EXCEPT ![thread_pool[t].file] = @ + 1]
    /\ UNCHANGED <<scan_log, program, call, window, cliVars, inputs, total_files, processed_files, active_conversions,
                   pending_files, is_converting, stop_requested, start_button,
                   stop_button, ui, total_converted, batch_log, selections, progress,
                   summary>>

(***************************************************************************)
(* convert_files_thread after convert_to_webp returned: the processed      *)
(* counter, the progress event, the tallies and the deletion of the        *)
(* original.  remove_ok is the outcome of os.remove on an existing file.   *)
(***************************************************************************)
\* fault: the worker removes the original of every success, whatever the setting
thread_deletes_every_success(task) == task.success

\* "if not settings['preserve_originals']" under "if success" in the worker
thread_deletes_original(task) == task.success /\ ~task.settings.preserve_originals

task_record(t) ==
    /\ program = "gui"
    /\ thread_pool[t].pc = "record"
    /\ LET task == thread_pool[t]
           b == task.batch
           tally == total_converted[b]
       IN  IF total_files = 0
           THEN \* the division raises at the first event and again in the handler
                /\ processed_files' = processed_files + 2
                /\ total_converted' = [total_converted EXCEPT ![b].error = tally.error + 1]
                /\ UNCHANGED <<progress, inputs>>
           ELSE IF task.success /\ task.file \notin inputs
           THEN \* os.path.getsize(input_path) raises after the success tally
                /\ processed_files' = processed_files + 2
                /\ progress' = Percent(processed_files + 2, total_files)
                /\ total_converted' = [total_converted EXCEPT
                                          ![b].success = tally.success + 1,
                                          ![b].error = tally.error + 1]
                /\ UNCHANGED inputs
           ELSE IF task.success
           THEN /\ processed_files' = processed_files + 1
                /\ progress' = Percent(processed_files + 1, total_files)
                /\ total_converted' = [total_converted EXCEPT
                                          ![b].success = tally.success + 1]
                /\ IF thread_deletes_original(task)
                   THEN \E remove_ok \in BOOLEAN :
                           inputs' = IF remove_ok THEN inputs \ {task.file} ELSE inputs
                   ELSE UNCHANGED inputs
           ELSE /\ processed_files' = processed_files + 1
                /\ progress' = Percent(processed_files + 1, total_files)
                /\ total_converted' = [total_converted EXCEPT ![b].error = tally.error + 1]
                /\ UNCHANGED inputs
    /\ thread_pool' = [thread_pool EXCEPT ![t].pc = "finally"]
    /\ UNCHANGED <<scan_log, program, call, window, cliVars, outputs, total_files, active_conversions, pending_files,
                   is_converting, stop_requested, start_button, stop_button, ui,
                   batch_log, selections, calls, summary>>

(***************************************************************************)
(* finish_conversion(total_converted), called with conversion_lock held    *)
(***************************************************************************)
finish_conversion(tally) ==
    /\ progress' = <<0, 1>>
    /\ is_converting' = FALSE
    /\ stop_requested' = FALSE
    /\ start_button' = IF total_files > processed_files THEN "normal" ELSE "disabled"
    /\ stop_button' = "disabled"
    /\ summary' = IF processed_files > 0
                  THEN \* stop_requested was cleared two statements earlier
                       [word |-> IF stop_requested' THEN "stopped" ELSE "completed",
                        kind |-> IF tally.error > 0 THEN "show_warning" ELSE "show_info"]
                  ELSE summary
    /\ pending_files' = IF processed_files >= total_files THEN <<>> ELSE pending_files

\* a sequence without its element at position t
RemoveAt(seq, t) == [i \in 1..(Len(seq) - 1) |-> IF i < t THEN seq[i] ELSE seq[i + 1]]

\* a dict that no unfinished call and no running dispatch loop refers to is garbage
Referenced(b, pool) ==
    \/ \E u \in DOMAIN pool : pool[u].batch = b
    \/ ui.pc = "dispatch" /\ ui.batch = b

\* the exit of convert_files_thread: both "active_conversions -= 1" blocks
task_finally(t) ==
    /\ program = "gui"
    /\ thread_pool[t].pc = "finally"
    /\ LET pool == RemoveAt(thread_pool, t)
       IN  /\ thread_pool' = pool
           /\ total_converted' = [b \in DOMAIN total_converted |->
                                     IF Referenced(b, pool) THEN total_converted[b]
                                     ELSE [success |-> 0, error |-> 0]]
           /\ batch_log' = [b \in DOMAIN batch_log |->
                               IF Referenced(b, pool) THEN batch_log[b]
                               ELSE [skipped |-> 0, stopped |-> FALSE]]
    /\ active_conversions' = active_conversions - 1
    /\ IF active_conversions - 1 = 0
       THEN finish_conversion(total_converted[thread_pool[t].batch])
       ELSE UNCHANGED <<progress, is_converting, stop_requested, start_button,
                        stop_button, summary, pending_files>>
    /\ UNCHANGED <<scan_log, program, call, window, cliVars, diskVars, total_files, processed_files, ui, selections, calls>>

(***************************************************************************)
(* image_to_webp.main                                                      *)
(***************************************************************************)
\* the dict object that main binds to "settings": the last used settings, or
\* the object of the named or of the default profile
settings_object(a) ==
    IF a.use_last
    THEN IF config.last_used_settings # {} THEN <<"last", "">>
         ELSE profile_object("")
    ELSE profile_object(a.profile)

object_value(object) ==
    IF object[1] = "last" THEN CHOOSE st \in config.last_used_settings : TRUE
    ELSE IF object[1] = "custom" THEN config.custom_profiles[object[2]]
    ELSE presets[object[2]]

\* the assignments "settings[...] = ..." of main; args.lossless is False or True
\* and never None, so the lossless assignment is always made
override(st, a) ==
    LET q == IF a.quality # {}
             THEN [st EXCEPT !.quality = CHOOSE v \in a.quality : TRUE] ELSE st
        l == [q EXCEPT !.lossless = a.lossless]
        k == IF a.keep_originals THEN [l EXCEPT !.preserve_originals = TRUE] ELSE l
        d == IF a.delete_originals THEN [k EXCEPT !.preserve_originals = FALSE] ELSE k
    IN  IF a.no_preserve_timestamps THEN [d EXCEPT !.preserve_timestamps = FALSE] ELSE d

resolve_settings(a) == override(object_value(settings_object(a)), a)

\* fault: main without the test for conflicting options
never_conflicting(a) == FALSE

\* "if args.keep_originals and args.delete_originals: raise ValueError"
conflicting(a) == a.keep_originals /\ a.delete_originals

isfile(p) == p \in inputs

isdir(p) == p \in Dirs

\* validate_paths(input_path, None)
validate_paths(input_path) == isfile(input_path) \/ isdir(input_path)

\* a submitted call convert_to_webp(input_path, output_path, quality,
\* preserve_timestamps, lossless, prefix, suffix)
NewFuture(input_path, output_path, quality, lossless) ==
    [input |-> input_path, output_path |-> output_path, quality |-> quality,
     lossless |-> lossless, pc |-> "queued",
     success |-> FALSE, result |-> NoPath, raised |-> ""]

\* main up to the choice between the single file and the directory
main ==
    /\ program = "cli"
    /\ main_pc = "main"
    /\ settings' = resolve_settings(args)
    /\ LET object == settings_object(args)
           current_settings == resolve_settings(args)
           \* the overrides are written into the object that get_profile returned
           written == IF object[1] = "custom"
                      THEN [config EXCEPT !.custom_profiles[object[2]] = current_settings]
                      ELSE config
           last_used == [written EXCEPT !.last_used_settings = {current_settings}]
           saved == IF args.save_profile # ""
                    THEN [last_used EXCEPT !.custom_profiles =
                            [n \in DOMAIN @ \cup {args.save_profile} |->
                                IF n = args.save_profile THEN current_settings ELSE @[n]]]
                    ELSE last_used
       IN  /\ presets' = IF object[1] = "preset"
                         THEN [presets EXCEPT ![object[2]] = current_settings]
                         ELSE presets
           /\ config' = saved
           /\ config_file' = saved
    /\ IF conflicting(args)
       THEN main_pc' = "exit" /\ exit_code' = 1
       ELSE IF ~validate_paths(args.input)
       THEN main_pc' = "exit" /\ exit_code' = 1
       ELSE IF isfile(args.input)
       THEN main_pc' = "convert_to_webp" /\ UNCHANGED exit_code
       ELSE main_pc' = "process_directory" /\ UNCHANGED exit_code
    /\ UNCHANGED <<program, call, window, guiVars, diskVars, args, futures, successful, failed,
                   pbar, result_idx>>

\* "if not settings['preserve_originals']" under "if success" in main
main_deletes_original(success, st) == success /\ ~st.preserve_originals

\* the single file: convert_to_webp(args.input, args.output, ...)
main_convert ==
    /\ program = "cli"
    /\ main_pc = "convert_to_webp"
    /\ \E disk_ok \in BOOLEAN, save \in SaveOutcomes :
          LET out == convert_output_path(args.input, args.output,
                                         args.prefix, args.suffix)
              error == IF convert_fails_early(args.input, disk_ok)
                       THEN early_error(args.input, disk_ok)
                       ELSE inner_except(save)
              ok == error = ""
          IN  /\ futures' = <<[input |-> args.input, output_path |-> args.output,
                               quality |-> settings.quality,
                               lossless |-> settings.lossless,
                               pc |-> "done", success |-> ok,
                               result |-> IF ok THEN out ELSE NoPath,
                               raised |-> outer_except(error)]>>
              /\ outputs' = IF ok THEN outputs \cup {out} ELSE outputs
    /\ main_pc' = "converted"
    /\ UNCHANGED <<program, call, window, configVars, guiVars, inputs, args, settings, successful, failed, pbar,
                   result_idx, exit_code>>

\* the single file after convert_to_webp returned
main_converted ==
    /\ program = "cli"
    /\ main_pc = "converted"
    /\ IF main_deletes_original(futures[1].success, settings)
       THEN \E remove_ok \in BOOLEAN :
               inputs' = IF remove_ok THEN inputs \ {args.input} ELSE inputs
       ELSE UNCHANGED inputs
    /\ main_pc' = "exit"
    /\ exit_code' = IF futures[1].raised # "" THEN 1 ELSE 0
    /\ UNCHANGED <<program, call, window, configVars, guiVars, outputs, args, settings, futures, successful,
                   failed, pbar, result_idx>>

(***************************************************************************)
(* process_directory                                                       *)
(***************************************************************************)
\* the image_files list: os.walk when recursive, os.listdir otherwise
image_files(directory_path, recursive) ==
    LET Found(f) == /\ f \in inputs
                    /\ f.ext \in SUPPORTED_FORMATS
                    /\ IF recursive THEN f.dir \in Tree(directory_path)
                                    ELSE f.dir = directory_path.dir
    IN  SelectSeq(Listing, Found)

\* "rel_path = os.path.relpath(input_path, directory_path)" joined to output_dir,
\* with the suffix .webp; None without an output directory
directory_output_path(input_path, directory_path, output_dir) ==
    IF output_dir # NoPath
    THEN with_suffix_webp(join(output_dir.dir, relpath(input_path, directory_path)))
    ELSE NoPath

\* discovery and the submission of every file to the executor
process_directory ==
    /\ program = "cli"
    /\ main_pc = "process_directory"
    /\ LET found == image_files(args.input, args.recursive)
       IN  IF found = <<>>
           THEN /\ main_pc' = "exit"
                /\ exit_code' = 0
                /\ UNCHANGED <<futures, result_idx>>
           ELSE /\ futures' = [i \in DOMAIN found |->
                                  NewFuture(found[i],
                                            directory_output_path(found[i], args.input,
                                                                  args.output),
                                            settings.quality, FALSE)]
                /\ result_idx' = 1
                /\ main_pc' = "results"
                /\ UNCHANGED exit_code
    /\ UNCHANGED <<program, call, window, configVars, guiVars, diskVars, args, settings, successful, failed, pbar>>

\* a worker of the executor: convert_to_webp up to generate_unique_filename
worker_convert(i) ==
    /\ program = "cli"
    /\ main_pc = "results"
    /\ futures[i].pc = "queued"
    /\ \E disk_ok \in BOOLEAN :
          LET future == futures[i]
          IN  futures' = [futures EXCEPT ![i] =
                  IF convert_fails_early(future.input, disk_ok)
                  THEN [future EXCEPT !.pc = "done", !.success = FALSE,
                                      !.raised = outer_except(
                                                    early_error(future.input, disk_ok))]
                  ELSE [future EXCEPT !.pc = "save",
                                      !.result = convert_output_path(future.input,
                                                     future.output_path,
                                                     args.prefix, args.suffix)]]
    /\ UNCHANGED <<program, call, window, configVars, guiVars, diskVars, main_pc, args, settings, successful,
                   failed, pbar, result_idx, exit_code>>

\* a worker of the executor: img.save and the return of convert_to_webp
worker_save(i) ==
    /\ program = "cli"
    /\ main_pc = "results"
    /\ futures[i].pc = "save"
    /\ \E save \in SaveOutcomes :
          /\ outputs' = IF save = "" THEN outputs \cup {futures[i].result} ELSE outputs
          /\ futures' = [futures EXCEPT ![i].pc = "done", ![i].success = (save = ""),
                            ![i].result = IF save = "" THEN @ ELSE NoPath,
                            ![i].raised = outer_except(inner_except(save))]
    /\ UNCHANGED <<program, call, window, configVars, guiVars, inputs, main_pc, args, settings, successful,
                   failed, pbar, result_idx, exit_code>>

\* fault: the result loop counts the successes and drops the failures
tally_successes_only(success, counts) ==
    IF success THEN [counts EXCEPT !.successful = @ + 1] ELSE counts

\* "successful += 1" or "failed += 1" of the result loop
tally_result(success, counts) ==
    IF success THEN [counts EXCEPT !.successful = @ + 1]
    ELSE [counts EXCEPT !.failed = @ + 1]

\* fault: the result loop removes the original without testing success
directory_deletes_unconditionally(success, preserve_originals) == ~preserve_originals

\* "if not preserve_originals" under "if success" in the result loop
directory_deletes_original(success, preserve_originals) ==
    success /\ ~preserve_originals

\* one iteration of "for input_path, future in futures": future.result() returned
process_directory_result ==
    /\ program = "cli"
    /\ main_pc = "results"
    /\ futures[result_idx].pc = "done"
    /\ LET future == futures[result_idx]
           counts == tally_result(future.success,
                                  [successful |-> successful, failed |-> failed])
       IN  /\ successful' = counts.successful
           /\ failed' = counts.failed
           /\ IF directory_deletes_original(future.success, settings.preserve_originals)
              THEN \E remove_ok \in BOOLEAN :
                      inputs' = IF remove_ok THEN inputs \ {future.input} ELSE inputs
              ELSE UNCHANGED inputs
    /\ pbar' = pbar + 1
    /\ IF result_idx = Len(futures)
       THEN main_pc' = "exit" /\ exit_code' = 0 /\ UNCHANGED result_idx
       ELSE result_idx' = result_idx + 1 /\ UNCHANGED <<main_pc, exit_code>>
    /\ UNCHANGED <<program, call, window, configVars, guiVars, outputs, args, settings, futures>>

Next ==
    \/ \E files \in Selections : process_files(files, FALSE, NoPath)
    \/ \E keep_original, recursive \in BOOLEAN :
          start_conversion(keep_original, recursive, NoPath)
    \/ dispatch
    \/ stop_conversion
    \/ \E t \in Tasks : task_start(t)
    \/ \E t \in Tasks : task_convert(t)
    \/ \E t \in Tasks : task_record(t)
    \/ \E t \in Tasks : task_finally(t)
    \/ main
    \/ main_convert
    \/ main_converted
    \/ process_directory
    \/ \E i \in DOMAIN futures : worker_convert(i)
    \/ \E i \in DOMAIN futures : worker_save(i)
    \/ process_directory_result
    \/ convert_to_webp_open
    \/ convert_to_webp_makedirs
    \/ convert_to_webp_save
    \/ convert_to_webp_timestamps

Spec == Init /\ [][Next]_vars

(***************************************************************************)
(* The command line tool alone, over every option that main reads except   *)
(* --list-profiles and --set-default-profile, which return before any      *)
(* settings are resolved; -o is given with a directory input.              *)
(***************************************************************************)
out_dir == Path(<<"out">>, <<>>, "")

ArgsCLI ==
    {a \in [input : {a_png, n_txt, in_dir, missing_png},
            recursive : BOOLEAN,
            keep_originals : BOOLEAN,
            delete_originals : BOOLEAN,
            profile : {"", "high_quality", "mine", "nosuch"},
            output : {NoPath, out_dir},
            quality : {{}, {50}},
            lossless : BOOLEAN,
            no_preserve_timestamps : {FALSE},
            use_last : {FALSE},
            save_profile : {"", "new"},
            prefix : {None, <<"p">>},
            suffix : {None, <<"s">>}] :
        a.output # NoPath => a.input \in Dirs}

InitCommandLine ==
    /\ inputs = Files
    /\ outputs = {}
    /\ InitGUI
    /\ InitCLI
    /\ program = "cli"
    /\ args \in ArgsCLI
    /\ call = NoCall
    /\ window = NoWindow

NextCLI ==
    \/ main
    \/ main_convert
    \/ main_converted
    \/ process_directory
    \/ \E i \in DOMAIN futures : worker_convert(i)
    \/ \E i \in DOMAIN futures : worker_save(i)
    \/ process_directory_result

SpecCLI == InitCommandLine /\ [][NextCLI]_vars

(***************************************************************************)
(* The command line tool run on a directory that also holds in/a.jpg, a    *)
(* second image with the stem of in/a.png.                                 *)
(***************************************************************************)
InitSameStem ==
    /\ inputs = Files \cup {a_jpg}
    /\ outputs = {}
    /\ InitGUI
    /\ InitCLI
    /\ program = "cli"
    /\ args \in {a \in ArgsCLI : a.profile = "" /\ a.save_profile = ""
                                   /\ a.quality = {} /\ ~a.lossless}
    /\ call = NoCall
    /\ window = NoWindow

SpecSameStem == InitSameStem /\ [][NextCLI]_vars

(***************************************************************************)
(* The window alone, with files and directories dropped on it, the Process *)
(* Subdirectories checkbutton set or not and the Output Directory entry    *)
(* empty or filled.                                                        *)
(***************************************************************************)
SelectionsGUI == {<<a_png>>, <<n_txt>>, <<in_dir>>, <<sub_dir>>}

InitWindow ==
    /\ inputs = Files
    /\ outputs = {}
    /\ InitGUI
    /\ InitCLI
    /\ program = "gui"
    /\ args = NoArgs
    /\ call = NoCall
    /\ window = NoWindow

NextGUI ==
    \/ \E files \in SelectionsGUI, recursive \in BOOLEAN, output_dir \in {NoPath, out_dir} :
          process_files(files, recursive, output_dir)
    \/ \E keep_original, recursive \in BOOLEAN, output_dir \in {NoPath, out_dir} :
          start_conversion(keep_original, recursive, output_dir)
    \/ dispatch
    \/ stop_conversion
    \/ \E t \in Tasks : task_start(t)
    \/ \E t \in Tasks : task_convert(t)
    \/ \E t \in Tasks : task_record(t)
    \/ \E t \in Tasks : task_finally(t)

SpecGUI == InitWindow /\ [][NextGUI]_vars

(***************************************************************************)
(* The profile controls of the window (gui.py: setup_ui, on_profile_changed, *)
(* save_profile, set_default_profile) over restarts of the application.     *)
(***************************************************************************)
runVars == <<main_pc, args, settings, futures, successful, failed, pbar,
             result_idx, exit_code>>

\* the names that the user types in the Save Profile dialog
ProfileNames == {"new", "balanced"}

\* the values of the dropdown that the user picks
ProfilePicks == {"balanced", "high_quality", "mine", "new", "balanced_custom"}

\* f"{profile}_custom" for a preset name
custom_name(profile) ==
    CASE profile = "high_quality" -> "high_quality_custom"
      [] profile = "balanced" -> "balanced_custom"
      [] profile = "web_optimized" -> "web_optimized_custom"
      [] profile = "space_saver" -> "space_saver_custom"

\* d[k] = v on a dict
Store(d, k, v) == [n \in DOMAIN d \cup {k} |-> IF n = k THEN v ELSE d[n]]

\* the four values that the controls take from a profile's settings
ControlsOf(st) ==
    [quality |-> st.quality, lossless |-> st.lossless,
     preserve_timestamps |-> st.preserve_timestamps,
     preserve_originals |-> st.preserve_originals]

\* the settings dict that save_profile and set_default_profile read off the
\* controls; the recursive box and the output directory are left as built
ControlSettings ==
    [quality |-> window.controls.quality, lossless |-> window.controls.lossless,
     preserve_timestamps |-> window.controls.preserve_timestamps,
     preserve_originals |-> window.controls.preserve_originals,
     recursive |-> FALSE, output_dir |-> NoPath]

\* the values of the profile dropdown
update_profile_list == DOMAIN PRESET_PROFILES \cup DOMAIN config.custom_profiles

\* WebPConverterGUI(): Config() loads the file, setup_ui builds profile_var
\* from config['default_profile'] and the controls from
\* PRESET_PROFILES[profile_var.get()], which raises KeyError for a name that
\* is not a preset
setup_ui ==
    /\ program = "profiles"
    /\ window.state = "none"
    /\ config' = config_file
    /\ LET profile == config_file.default_profile
       IN  window' = IF profile \in DOMAIN PRESET_PROFILES
                     THEN [state |-> "running", profile_var |-> profile,
                           controls |-> ControlsOf(PRESET_PROFILES[profile])]
                     ELSE [NoWindow EXCEPT !.state = "KeyError",
                                           !.profile_var = profile]
    /\ UNCHANGED <<program, call, presets, config_file, runVars, guiVars, diskVars>>

\* the user picks a value of the dropdown
on_profile_changed(profile) ==
    /\ program = "profiles"
    /\ window.state = "running"
    /\ profile \in update_profile_list
    /\ LET st == IF profile \in DOMAIN PRESET_PROFILES THEN PRESET_PROFILES[profile]
                 ELSE config.custom_profiles[profile]
       IN  window' = [window EXCEPT !.profile_var = profile,
                                    !.controls = ControlsOf(st)]
    /\ UNCHANGED <<program, call, configVars, runVars, guiVars, diskVars>>

\* the user ticks or clears the Lossless box
lossless_toggled ==
    /\ program = "profiles"
    /\ window.state = "running"
    /\ window' = [window EXCEPT !.controls.lossless = ~@]
    /\ UNCHANGED <<program, call, configVars, runVars, guiVars, diskVars>>

\* Save Profile with the name typed in the dialog
save_profile(name) ==
    /\ program = "profiles"
    /\ window.state = "running"
    /\ IF name \in DOMAIN PRESET_PROFILES
       THEN UNCHANGED <<window, config, config_file>>
       ELSE LET saved == [config EXCEPT !.custom_profiles =
                                            Store(@, name, ControlSettings)]
            IN  /\ config' = saved
                /\ config_file' = saved
                /\ window' = [window EXCEPT !.profile_var = name]
    /\ UNCHANGED <<program, call, presets, runVars, guiVars, diskVars>>

\* Config.set_default_profile, on the config that the caller has changed
Config_set_default_profile(cfg, profile_name) ==
    IF profile_name \in DOMAIN PRESET_PROFILES \/ profile_name \in DOMAIN cfg.custom_profiles
    THEN [cfg EXCEPT !.default_profile = profile_name]
    ELSE cfg

\* Set as Default: a preset becomes the custom profile "<preset>_custom",
\* which is made the default; a custom profile is updated and made the default
set_default_profile ==
    /\ program = "profiles"
    /\ window.state = "running"
    /\ LET profile == window.profile_var
           name == IF profile \in DOMAIN PRESET_PROFILES THEN custom_name(profile)
                   ELSE profile
           stored == [config EXCEPT !.custom_profiles = Store(@, name, ControlSettings)]
           saved == Config_set_default_profile(stored, name)
       IN  /\ config' = saved
           /\ config_file' = saved
           /\ window' = [window EXCEPT !.profile_var = name]
    /\ UNCHANGED <<program, call, presets, runVars, guiVars, diskVars>>

\* the user closes the window: the process ends, the file stays
close_window ==
    /\ program = "profiles"
    /\ window.state = "running"
    /\ window' = NoWindow
    /\ UNCHANGED <<program, call, configVars, runVars, guiVars, diskVars>>

InitProfiles ==
    /\ inputs = Files
    /\ outputs = {}
    /\ InitGUI
    /\ InitCLI
    /\ program = "profiles"
    /\ args = NoArgs
    /\ call = NoCall
    /\ window = NoWindow

NextProfiles ==
    \/ setup_ui
    \/ \E profile \in ProfilePicks :
          on_profile_changed(profile)
    \/ lossless_toggled
    \/ \E name \in ProfileNames : save_profile(name)
    \/ set_default_profile
    \/ close_window

SpecProfiles == InitProfiles /\ [][NextProfiles]_vars

(***************************************************************************)
(* Properties                                                              *)
(***************************************************************************)
\* a step in which the worker at position t leaves pc "from" for pc "to"
Moves(t, from, to) ==
    /\ Len(thread_pool') = Len(thread_pool)
    /\ thread_pool[t].pc = from
    /\ thread_pool'[t].pc = to

\* a step of task_finally that calls finish_conversion
FinishStep ==
    /\ program = "gui"
    /\ Len(thread_pool') < Len(thread_pool)
    /\ active_conversions = 1

\* a batch is under way: the dispatch loop runs or a submitted call is unfinished
BatchOpen == ui.pc = "dispatch" \/ thread_pool # <<>>

\* C1: the processed counter stays between 0 and total_files, and no progress
\* event placed on the queue exceeds 100%.
C1_ProcessedWithinTotal ==
    program = "gui" =>
        /\ 0 <= processed_files
        /\ processed_files <= total_files
        /\ progress[1] <= progress[2]

\* C2: while a batch is under way the progress events never decrease, and the
\* value 100% is only emitted when processed_files equals total_files.
C2_ProgressMonotone ==
    [][(program = "gui" /\ BatchOpen') =>
          /\ ProgressGeq(progress', progress)
          /\ (progress' # progress /\ progress'[1] = progress'[2])
                => processed_files' = total_files']_vars

\* C3: when the last call of a batch ends after the dispatch loop, the outcomes
\* recorded for the batch (succeeded, failed, skipped) add up to total_files.
C3_OneOutcomePerRequest ==
    [][(FinishStep /\ ui.pc = "idle" /\ thread_pool' = <<>>) =>
          LET b == thread_pool[1].batch
          IN  total_converted[b].success + total_converted[b].error
                + batch_log[b].skipped = total_files]_vars

\* C4: after one file selection, no file is passed to convert_to_webp more than
\* once, whatever sequence of Start, Stop and finish events follows.
C4_ConvertedAtMostOnce ==
    \A f \in Files : calls[f] <= 1

\* C5: finish_conversion runs only on the last outcome: the dispatch loop has
\* ended and no submitted call is still queued or executing.
C5_FinishOnLastOutcome ==
    [][FinishStep => (ui.pc = "idle" /\ thread_pool' = <<>>)]_vars

\* C6: when finish_conversion ends a batch in which stop was requested, the
\* summary it emits says "stopped" and not "completed".
C6_StoppedIsReported ==
    [][(FinishStep /\ stop_requested /\ processed_files > 0) =>
          summary'.word = "stopped"]_vars

\* C7: once stop_conversion has set the flag for a batch, no queued call of that
\* batch goes on to convert_to_webp.
C7_NoStartAfterStop ==
    [][\A t \in DOMAIN thread_pool :
          (program = "gui" /\ Moves(t, "queued", "convert"))
             => ~batch_log[thread_pool[t].batch].stopped]_vars

\* the step removes input file f from the disk
Deleted(f) == f \in inputs /\ f \notin inputs'

\* C8: an input file is deleted only by a batch or run whose preserve_originals
\* is false; with preserve_originals true no input is ever deleted.
C8_PreservedNeverDeleted ==
    [][\A f \in Files : Deleted(f) =>
          \/ /\ program = "gui"
             /\ \E t \in DOMAIN thread_pool :
                   /\ Moves(t, "record", "finally")
                   /\ thread_pool[t].file = f
                   /\ ~thread_pool[t].settings.preserve_originals
          \/ /\ program = "cli"
             /\ main_pc = "results"
             /\ futures[result_idx].input = f
             /\ ~settings.preserve_originals
          \/ /\ program = "cli"
             /\ main_pc = "converted"
             /\ args.input = f
             /\ ~settings.preserve_originals]_vars

\* C8 witness: a GUI conversion with preserve_originals true has succeeded and
\* been recorded, and its input is still on disk.
C8_Witness ==
    /\ program = "gui"
    /\ \E t \in DOMAIN thread_pool :
          /\ thread_pool[t].pc = "finally"
          /\ thread_pool[t].success
          /\ thread_pool[t].settings.preserve_originals
          /\ thread_pool[t].file \in inputs
          /\ thread_pool[t].result \in outputs

\* C9: an input file is deleted only by the call whose own conversion of that
\* file returned success, with its output written.
C9_DeletedOnlyAfterSuccess ==
    [][\A f \in Files : Deleted(f) =>
          \/ /\ program = "gui"
             /\ \E t \in DOMAIN thread_pool :
                   /\ Moves(t, "record", "finally")
                   /\ thread_pool[t].file = f
                   /\ thread_pool[t].success
                   /\ thread_pool[t].result \in outputs
          \/ /\ program = "cli"
             /\ main_pc = "results"
             /\ futures[result_idx].input = f
             /\ futures[result_idx].success
             /\ futures[result_idx].result \in outputs
          \/ /\ program = "cli"
             /\ main_pc = "converted"
             /\ futures[1].input = f
             /\ futures[1].success
             /\ futures[1].result \in outputs]_vars

\* C9 witness: process_directory ended with preserve_originals false: a converted
\* input is gone, its output exists, and an input that failed is still there.
C9_Witness ==
    /\ program = "cli"
    /\ main_pc = "exit"
    /\ ~settings.preserve_originals
    /\ \E i, j \in DOMAIN futures :
          /\ futures[i].success
          /\ futures[i].input \notin inputs
          /\ futures[i].result \in outputs
          /\ ~futures[j].success
          /\ futures[j].input \in inputs

\* the supported files below the directory given on the command line
Discovered ==
    {f \in Files : /\ f.ext \in SUPPORTED_FORMATS
                   /\ IF args.recursive THEN f.dir \in Tree(args.input)
                                        ELSE f.dir = args.input.dir}

\* C10: when process_directory ends, every discovered file was attempted and
\* tallied once: successful + failed and the progress bar equal the number of
\* discovered files, successful counts the conversions that returned success,
\* and every corrupt file is among the failed.
C10_EveryFileTallied ==
    (program = "cli" /\ main_pc = "exit" /\ exit_code = 0 /\ isdir(args.input)) =>
        /\ \A i \in DOMAIN futures : futures[i].pc = "done"
        /\ {futures[i].input : i \in DOMAIN futures} = Discovered
        /\ successful + failed = Cardinality(Discovered)
        /\ pbar = Cardinality(Discovered)
        /\ successful = Cardinality({i \in DOMAIN futures : futures[i].success})
        /\ failed >= Cardinality(Discovered \cap Corrupt)

\* C10 witness: a recursive run over two valid files and one corrupt file ended
\* with successful = 2 and failed = 1.
C10_Witness ==
    /\ program = "cli"
    /\ main_pc = "exit"
    /\ isdir(args.input)
    /\ Len(futures) = 3
    /\ successful = 2
    /\ failed = 1
    /\ pbar = 3

\* the calls of convert_to_webp that have returned: the GUI calls past the
\* conversion and the futures of the command line that are done
Returned ==
    {thread_pool[t] : t \in {u \in DOMAIN thread_pool :
                                 thread_pool[u].pc = "record"}}
       \cup {futures[i] : i \in {j \in DOMAIN futures : futures[j].pc = "done"}}

\* C11: no call of convert_to_webp lets an exception reach its caller; a call
\* that returns success has written its output, and a call that failed returns
\* no output path.
C11_NeverRaises ==
    \A r \in Returned :
        /\ r.raised = ""
        /\ r.success => r.result \in outputs
        /\ ~r.success => r.result = NoPath

\* C11 witness: in one directory run a valid file failed in img.save with an
\* error that is neither IOError nor SyntaxError, and another file was written.
C11_Witness ==
    /\ program = "cli"
    /\ \E i, j \in DOMAIN futures :
          /\ futures[i].pc = "done" /\ ~futures[i].success
          /\ futures[i].input \notin Corrupt
          /\ futures[j].pc = "done" /\ futures[j].success
          /\ futures[j].result \in outputs

\* the name "chosen" is free on "disk", and it is the plain name or carries the
\* smallest counter k >= 1 whose name is free
FreshAndSmallest(chosen, disk) ==
    LET plain == [chosen EXCEPT !.ctr = 0]
    IN  /\ chosen \notin disk
        /\ chosen.ctr > 0 =>
              /\ plain \in disk
              /\ \A k \in 1..(chosen.ctr - 1) : [plain EXCEPT !.ctr = k] \in disk

\* C12: every output name that a conversion obtains from generate_unique_filename
\* does not exist when it is chosen and is the plain name or the name with the
\* smallest free counter; an output that is written never replaces a file.
C12_UniqueOutputName ==
    [][/\ \A t \in DOMAIN thread_pool :
             (program = "gui" /\ Moves(t, "convert", "record")
                 /\ thread_pool'[t].success)
                => FreshAndSmallest(thread_pool'[t].result, inputs \cup outputs)
       /\ \A i \in DOMAIN futures :
             (program = "cli" /\ Len(futures') = Len(futures)
                 /\ futures[i].pc = "queued" /\ futures'[i].pc = "save")
                => FreshAndSmallest(futures'[i].result, inputs \cup outputs)
       /\ \A i \in DOMAIN futures :
             (program = "cli" /\ Len(futures') = Len(futures)
                 /\ futures[i].pc = "save" /\ futures'[i].success)
                => futures'[i].result \notin outputs
       /\ (program = "cli" /\ main_pc = "convert_to_webp" /\ futures'[1].success)
                => FreshAndSmallest(futures'[1].result, inputs \cup outputs)]_vars

\* C12 witness: the same input was converted twice and kept: name.webp and
\* name(1).webp both exist.
C12_Witness ==
    /\ a_png \in inputs
    /\ with_suffix_webp(a_png) \in outputs
    /\ [with_suffix_webp(a_png) EXCEPT !.ctr = 1] \in outputs

\* the text that an option contributes to a file name: nothing when not given
given(value) == IF value = None THEN <<>> ELSE value

\* C13: every output that the command line tool writes is named
\* {prefix}{basename}{suffix}.webp after its input, with the prefix and the
\* suffix applied once and an option that was not given contributing nothing.
C13_OutputNameCLI ==
    program = "cli" =>
        \A i \in DOMAIN futures :
            futures[i].result # NoPath =>
                /\ futures[i].result.name =
                      given(args.prefix) \o futures[i].input.name \o given(args.suffix)
                /\ futures[i].result.ext = ".webp"

\* C16: convert_to_webp is called only for inputs whose extension is in
\* SUPPORTED_FORMATS: no call of the command line tool and no call submitted by
\* the window has an input with another extension.
C16_OnlySupportedConverted ==
    /\ \A i \in DOMAIN futures : futures[i].input.ext \in SUPPORTED_FORMATS
    /\ \A t \in DOMAIN thread_pool : thread_pool[t].file.ext \in SUPPORTED_FORMATS

UnknownProfile ==
    /\ args.profile # ""
    /\ args.profile \notin DOMAIN PRESET_PROFILES
    /\ args.profile \notin DOMAIN StoredConfig.custom_profiles

\* C18: a command line whose --profile names no preset and no stored custom
\* profile ends with exit code 1 straight from main: no conversion is run with
\* the settings of another profile.
C18_UnknownProfileAborts ==
    (program = "cli" /\ UnknownProfile) =>
        /\ main_pc \in {"main", "exit"}
        /\ main_pc = "exit" => exit_code = 1
        /\ futures = <<>>
        /\ outputs = {}

\* C19: every call of convert_to_webp made by the command line tool, for the
\* single file and for each file of a directory, carries the quality and the
\* lossless value of the settings resolved for the run.
C19_EncodesWithResolvedSettings ==
    program = "cli" =>
        \A i \in DOMAIN futures :
            /\ futures[i].quality = settings.quality
            /\ futures[i].lossless = settings.lossless

\* C20: a run of the command line tool leaves every preset and every stored
\* custom profile with the values it had before the run, in memory and in the
\* configuration file, unless --save-profile named the profile.
C20_ProfilesUnchanged ==
    program = "cli" =>
        /\ \A n \in DOMAIN StoredConfig.custom_profiles :
              n # args.save_profile =>
                 /\ config_file.custom_profiles[n] = StoredConfig.custom_profiles[n]
                 /\ config.custom_profiles[n] = StoredConfig.custom_profiles[n]
        /\ \A n \in DOMAIN PRESET_PROFILES : presets[n] = PRESET_PROFILES[n]

\* the output path that keeps the path of input_path below root under output_dir
Rerooted(input_path, root, output_dir) ==
    [dir |-> output_dir.dir \o SubSeq(input_path.dir, Len(root.dir) + 1,
                                      Len(input_path.dir)),
     name |-> input_path.name, ctr |-> input_path.ctr, ext |-> ".webp"]

\* C14: with an output directory, every file found under a converted directory
\* is given the output path made of the output directory, the file's path
\* relative to that directory and the extension .webp, by process_directory of
\* the command line tool and by the directory walk of process_files.
C14_OutputKeepsRelativePath ==
    /\ (program = "cli" /\ args.output # NoPath) =>
          \A i \in DOMAIN futures :
              futures[i].output_path = Rerooted(futures[i].input, args.input, args.output)
    /\ program = "gui" =>
          \A k \in DOMAIN scan_log : \A j \in DOMAIN pending_files :
              LET root == scan_log[k][2]
                  file_path == pending_files[j][1]
                  output_path == pending_files[j][2]
              IN  (/\ scan_log[k][1] = "Scanning directory"
                   /\ file_path.dir \in Tree(root)
                   /\ output_path # NoPath)
                     => output_path = Rerooted(file_path, root, out_dir)

\* the supported files on disk that a directory holds: all those beneath it
\* when recursive, its immediate children otherwise
Beneath(d, recursive) ==
    {f \in inputs : /\ f.ext \in SUPPORTED_FORMATS
                    /\ IF recursive THEN f.dir \in Tree(d) ELSE f.dir = d.dir}

\* C15: for a directory input, the files enqueued are, one request each, the
\* supported immediate children of the directory when recursive is disabled
\* and every supported file beneath it when recursive is enabled, in
\* process_directory of the command line tool and in process_files.
C15_DirectoryDiscovery ==
    [][/\ (program = "cli" /\ main_pc = "process_directory") =>
             /\ {futures'[i].input : i \in DOMAIN futures'}
                   = Beneath(args.input, args.recursive)
             /\ Len(futures') = Cardinality(Beneath(args.input, args.recursive))
       /\ (program = "gui" /\ selections' # selections) =>
             \A k \in DOMAIN scan_log' :
                 LET d == scan_log'[k][2]
                     below == SelectSeq(pending_files',
                                        LAMBDA e : e[1].dir \in Tree(d))
                     wanted == IF scan_log'[k][1] = "Scanning directory"
                               THEN Beneath(d, TRUE) ELSE Beneath(d, FALSE)
                 IN  d \in Dirs =>
                        /\ {below[j][1] : j \in DOMAIN below} = wanted
                        /\ Len(below) = Cardinality(wanted)]_vars

\* the error that convert_to_webp returns for an input that does not decode
CorruptImageError == Raised("ConversionError", "Corrupted or invalid image file")

\* C21: a call of convert_to_webp that failed in os.makedirs or in img.save
\* returns an error that differs from the one returned for a corrupt or invalid
\* input image.
C21_WriteErrorDistinct ==
    (program = "convert" /\ call.pc = "returned"
        /\ call.failed_at \in {"makedirs", "save"})
       => call.error # CorruptImageError

\* C22: after a call of convert_to_webp that chose its output path and then
\* returned failure, no file exists at that path.
C22_NoOutputLeftOnFailure ==
    (program = "convert" /\ call.pc = "returned" /\ ~call.success
        /\ call.failed_at \in {"save", "copy_timestamps"})
       => call.output_path \notin outputs

\* C23: warnings do not undo a success.  A call of convert_to_webp that has
\* written its output and goes on to copy the timestamps returns success
\* whatever os.utime does; a file whose conversion succeeded and whose original
\* could not be deleted is tallied as successful and not as failed, by the
\* result loop of process_directory and by the worker of the window.
C23_WarningsKeepSuccess ==
    [][/\ (program = "convert" /\ call.pc = "copy_timestamps") =>
             /\ call'.pc = "returned"
             /\ call'.success
             /\ call'.result = call.output_path
       /\ (program = "cli" /\ main_pc = "results" /\ pbar' = pbar + 1
             /\ futures[result_idx].success /\ ~settings.preserve_originals
             /\ futures[result_idx].input \in inputs') =>
             /\ successful' = successful + 1
             /\ failed' = failed
       /\ \A t \in DOMAIN thread_pool :
             (/\ program = "gui" /\ Moves(t, "record", "finally")
              /\ thread_pool[t].success
              /\ ~thread_pool[t].settings.preserve_originals
              /\ thread_pool[t].file \in inputs /\ thread_pool[t].file \in inputs'
              /\ total_files # 0) =>
                LET b == thread_pool[t].batch
                IN  /\ total_converted'[b].success = total_converted[b].success + 1
                    /\ total_converted'[b].error = total_converted[b].error]_vars

\* C23 witness: a call has returned success with its output on disk although
\* copying the timestamps failed.
C23_Witness ==
    /\ program = "convert"
    /\ call.pc = "returned"
    /\ call.warned
    /\ call.success
    /\ call.result \in outputs

\* the step runs statements inside "with self.conversion_lock": the reset of
\* process_files, the skip of the dispatch loop, the counters and tallies of the
\* worker, and its finally clause with finish_conversion
holds_conversion_lock ==
    \/ selections' # selections
    \/ ui.pc = "dispatch" /\ processed_files' # processed_files
    \/ \E t \in DOMAIN thread_pool : Moves(t, "record", "finally")
    \/ Len(thread_pool') < Len(thread_pool)

\* C24: in the window, every step that changes processed_files, a tally of
\* total_converted or stop_requested makes the change inside conversion_lock.
C24_SharedStateUnderLock ==
    [][(/\ program = "gui"
        /\ \/ processed_files' # processed_files
           \/ stop_requested' # stop_requested
           \/ /\ Len(total_converted') = Len(total_converted)
              /\ total_converted' # total_converted)
          => holds_conversion_lock]_vars

\* C25: every call submitted by a batch converts with the settings captured
\* when Start Conversion was pressed: an output path handed to the call lies in
\* the output directory of those settings, or next to the input when they name
\* no output directory.
C25_SettingsCapturedAtStart ==
    program = "gui" =>
        \A t \in DOMAIN thread_pool :
            LET task == thread_pool[t]
            IN  task.output_path # NoPath =>
                   task.output_path.dir =
                      IF task.settings.output_dir # NoPath
                      THEN task.settings.output_dir.dir
                      ELSE task.file.dir

\* C26: the conversions of one directory run never write two outputs to the
\* same path: any two calls that returned success wrote to different files, so
\* both outputs exist and neither replaced the other.
C26_DistinctOutputsInBatch ==
    program = "cli" =>
        \A i, j \in DOMAIN futures :
            (/\ i # j
             /\ futures[i].pc = "done" /\ futures[i].success
             /\ futures[j].pc = "done" /\ futures[j].success)
               => futures[i].result # futures[j].result

\* C27: in the window, active_conversions is the number of submitted calls of
\* convert_files_thread that have not finished, and is never negative.
C27_ActiveCountsUnfinished ==
    program = "gui" =>
        /\ active_conversions = Len(thread_pool)
        /\ active_conversions >= 0

(***************************************************************************)
(* C28: the window starts for every default profile that the application   *)
(* can persist: after any Save Profile and Set as Default actions, building *)
(* WebPConverterGUI again initialises the controls from the default        *)
(* profile without an error.                                               *)
(***************************************************************************)
C28_StartupSucceeds ==
    program = "profiles" => window.state # "KeyError"

\* C29: when main aborts on conflicting options or on an input path that does
\* not exist, the configuration file still holds the last_used_settings and the
\* custom profiles that it held before the run.
C29_AbortLeavesConfig ==
    (/\ program = "cli"
     /\ main_pc = "exit"
     /\ conflicting(args) \/ args.input \notin Files \cup Dirs) =>
        /\ config_file.last_used_settings = StoredConfig.last_used_settings
        /\ config_file.custom_profiles = StoredConfig.custom_profiles

\* the lossless value of the profile that a command line names, as stored
\* before the run ("" is the default profile, an unknown name is balanced)
ProfileLossless(profile) ==
    LET name == IF profile = "" THEN StoredConfig.default_profile ELSE profile
    IN  IF name \in DOMAIN StoredConfig.custom_profiles
        THEN StoredConfig.custom_profiles[name].lossless
        ELSE IF name \in DOMAIN PRESET_PROFILES THEN PRESET_PROFILES[name].lossless
        ELSE PRESET_PROFILES["balanced"].lossless

\* C30: a command line without --lossless leaves the lossless value of the
\* selected profile in the resolved settings (true for high_quality).
C30_LosslessFromProfile ==
    (/\ program = "cli"
     /\ main_pc # "main"
     /\ ~args.lossless
     /\ ~args.use_last) =>
        settings.lossless = ProfileLossless(args.profile)

====
